---- MODULE Spec2Model ----
(***************************************************************************)
(* Model of client/coral-framework/services/graphqlRegistry.js: the three   *)
(* contribution mappings, the lazy one-shot init(), the two fragment        *)
(* assembly strategies and resolveFragments.                                *)
(*                                                                          *)
(* Strings that the code inspects (keys, spread names) are sequences of     *)
(* '_'-separated segments: <<"TalkSlot","Foo","Bar">> is TalkSlot_Foo_Bar.   *)
(* Source text is a sequence of lines, a line a sequence of tokens.         *)
(***************************************************************************)
EXTENDS Integers, Sequences, FiniteSets, TLC

VARIABLES
  fragments,        \* key -> [type, names, documents]           (line 7)
  mutationOptions,  \* key -> sequence of configs                (line 8)
  queryOptions,     \* key -> sequence of configs                (line 9)
  initialized,      \* the one-shot flag                         (line 206)
  globalFragments,  \* coral-framework/graphql/fragments, in Object.keys order
  extensions,       \* what getGraphQLExtensions() returns
  slotFragments,    \* what getSlotFragments(slot, resource) returns
  initPc,           \* position of the running init(): idle/builtin/plugins/done/failed
  initPos,          \* index of the next contribution init() applies
  pending,          \* the read call that is waiting for init() to return
  last,             \* the call that returned last: its result and the number
                    \* of getSlotFragments() calls it made
  log,              \* the contributions the add-functions have stored, in call order
  reentered,        \* a read accessor was called from inside the running init()
  gateRuns,         \* how often the body of init() was entered
  discoveryCalls,   \* how often getGraphQLExtensions() was called
  nAdds             \* public add-calls made so far

vars == <<fragments, mutationOptions, queryOptions, initialized, globalFragments,
          extensions, slotFragments, initPc, initPos, pending, last, log,
          reentered, gateRuns, discoveryCalls, nAdds>>

env == <<globalFragments, extensions, slotFragments>>

-----------------------------------------------------------------------------
(* Bounds *)

MaxAdds == 1

-----------------------------------------------------------------------------
(* Names and documents *)

N(s) == <<s>>

K == N("K")
J == N("J")
M == N("M")

NoType == "undefined"
NoSource == [lines |-> <<>>, nl |-> FALSE, none |-> TRUE]

FragmentDefinition(name, type, spreads) ==
  [kind |-> "FragmentDefinition", name |-> name, typeCondition |-> type,
   spreads |-> spreads]

OperationDefinition(name, spreads) ==
  [kind |-> "OperationDefinition", name |-> name, typeCondition |-> NoType,
   spreads |-> spreads]

Throw(e) == [ok |-> FALSE, val |-> e]
Return(v) == [ok |-> TRUE, val |-> v]

-----------------------------------------------------------------------------
(* Contribution Store *)

\* line 11: ast.definitions[0].typeCondition.name.value
getTypeNameThrows(ast) == ast.definitions[1].typeCondition = NoType
getTypeName(ast) == ast.definitions[1].typeCondition

\* coral-framework/utils getDefinitionName
getDefinitionName(ast) == ast.definitions[1].name

\* A registry that starts the group of a key anew with every document
addFragmentReplacing(frs, key, document) ==
  IF getTypeNameThrows(document) THEN Throw("TypeError")
  ELSE Return([k \in DOMAIN frs \cup {key} |->
                 IF k = key
                 THEN [type |-> getTypeName(document),
                       names |-> <<getDefinitionName(document)>>,
                       documents |-> <<document>>]
                 ELSE frs[k]])

\* A registry that puts the newest name in front
addFragmentNamesFirst(frs, key, document) ==
  IF getTypeNameThrows(document) THEN Throw("TypeError")
  ELSE IF key \notin DOMAIN frs
  THEN Return(frs @@ (key :> [type |-> getTypeName(document),
                              names |-> <<getDefinitionName(document)>>,
                              documents |-> <<document>>]))
  ELSE Return([frs EXCEPT ![key].names = <<getDefinitionName(document)>> \o @,
                          ![key].documents = Append(@, document)])

\* A registry in which the type of the latest document wins
addFragmentLastType(frs, key, document) ==
  IF getTypeNameThrows(document) THEN Throw("TypeError")
  ELSE IF key \notin DOMAIN frs
  THEN Return(frs @@ (key :> [type |-> getTypeName(document),
                              names |-> <<getDefinitionName(document)>>,
                              documents |-> <<document>>]))
  ELSE Return([frs EXCEPT ![key].type = getTypeName(document),
                          ![key].names = Append(@, getDefinitionName(document)),
                          ![key].documents = Append(@, document)])

\* lines 23-35, on the fragments mapping
addFragment(frs, key, document) ==
  IF getTypeNameThrows(document) THEN Throw("TypeError")
  ELSE LET type == getTypeName(document)
           name == getDefinitionName(document)
       IN IF key \notin DOMAIN frs
          THEN Return(frs @@ (key :> [type |-> type, names |-> <<name>>,
                                      documents |-> <<document>>]))
          ELSE Return([frs EXCEPT ![key].names = Append(@, name),
                                  ![key].documents = Append(@, document)])

\* A registry that keeps only the latest config of a key
addOptionsReplacing(opts, key, config) ==
  [k \in DOMAIN opts \cup {key} |-> IF k = key THEN <<config>> ELSE opts[k]]

\* A registry that drops a config its key already has
addOptionsOnce(opts, key, config) ==
  IF key \notin DOMAIN opts
  THEN opts @@ (key :> <<config>>)
  ELSE IF \E i \in 1..Len(opts[key]) : opts[key][i] = config
  THEN opts
  ELSE [opts EXCEPT ![key] = Append(@, config)]

\* lines 59-65 and 75-81, on either options mapping
addOptions(opts, key, config) ==
  IF key \notin DOMAIN opts
  THEN opts @@ (key :> <<config>>)
  ELSE [opts EXCEPT ![key] = Append(@, config)]

Store(f, m, q) == [fragments |-> f, mutationOptions |-> m, queryOptions |-> q]

\* An add() that forgets the queries of an extension
applyItemWithoutQueries(st, it) ==
  IF it.fn = "addFragment"
  THEN LET r == addFragment(st.fragments, it.key, it.val)
       IN IF r.ok THEN Return([st EXCEPT !.fragments = r.val]) ELSE Throw(r.val)
  ELSE IF it.fn = "addMutationOptions"
  THEN Return([st EXCEPT !.mutationOptions = addOptions(@, it.key, it.val)])
  ELSE Return(st)

\* One contribution: fn is the add-function it goes to.
Item(fn, key, val) == [fn |-> fn, key |-> key, val |-> val]

applyItem(st, it) ==
  IF it.fn = "addFragment"
  THEN LET r == addFragment(st.fragments, it.key, it.val)
       IN IF r.ok THEN Return([st EXCEPT !.fragments = r.val]) ELSE Throw(r.val)
  ELSE IF it.fn = "addMutationOptions"
  THEN Return([st EXCEPT !.mutationOptions = addOptions(@, it.key, it.val)])
  ELSE Return([st EXCEPT !.queryOptions = addOptions(@, it.key, it.val)])

\* lines 120-124: the entries of an extension in the order add() visits them
itemsOf(extension) ==
  [i \in 1..Len(extension.fragments) |->
     Item("addFragment", extension.fragments[i][1], extension.fragments[i][2])]
  \o [i \in 1..Len(extension.mutations) |->
     Item("addMutationOptions", extension.mutations[i][1], extension.mutations[i][2])]
  \o [i \in 1..Len(extension.queries) |->
     Item("addQueryOptions", extension.queries[i][1], extension.queries[i][2])]

RECURSIVE applyItems(_, _)
\* forEach over contributions; an exception leaves the earlier ones applied
applyItems(st, items) ==
  IF items = <<>> THEN [ok |-> TRUE, val |-> "undefined", st |-> st, done |-> <<>>]
  ELSE LET r == applyItem(st, Head(items))
       IN IF r.ok
          THEN LET rest == applyItems(r.val, Tail(items))
               IN [rest EXCEPT !.done = <<Head(items)>> \o @]
          ELSE [ok |-> FALSE, val |-> r.val, st |-> st, done |-> <<>>]

\* lines 120-124
add(st, extension) == applyItems(st, itemsOf(extension))

\* lines 129-132 and 137-140 after init(): opts[key] || []
getOptions(opts, key) == IF key \in DOMAIN opts THEN opts[key] ELSE <<>>

-----------------------------------------------------------------------------
(* What init() has to apply *)

builtinItems(gf) == [i \in 1..Len(gf) |-> Item("addFragment", gf[i][1], gf[i][2])]

RECURSIVE pluginItemsReversed(_)
\* An init() that applies the extensions last to first
pluginItemsReversed(exts) ==
  IF exts = <<>> THEN <<>>
  ELSE pluginItemsReversed(Tail(exts)) \o itemsOf(Head(exts))

RECURSIVE pluginItems(_)
pluginItems(exts) ==
  IF exts = <<>> THEN <<>> ELSE itemsOf(Head(exts)) \o pluginItems(Tail(exts))

-----------------------------------------------------------------------------
(* Source text *)

Open(kind, name, type) == [t |-> "open", kind |-> kind, name |-> name, type |-> type]
Close == [t |-> "close", kind |-> "", name |-> <<>>, type |-> ""]
Field == [t |-> "field", kind |-> "", name |-> N("f"), type |-> ""]
Spread(name) == [t |-> "spread", kind |-> "", name |-> name, type |-> ""]

Text(lines, nl) == [lines |-> lines, nl |-> nl, none |-> FALSE]

RECURSIVE Flatten(_)
Flatten(lines) == IF lines = <<>> THEN <<>> ELSE Head(lines) \o Flatten(Tail(lines))

\* The characters of a token as '_'-separated segments, with the blank before it.
tokenSegs(tok) ==
  IF tok.t = "close" THEN <<" }">>
  ELSE IF tok.t = "field" THEN <<" f">>
  ELSE IF tok.t = "spread" THEN <<" ..." \o tok.name[1]>> \o Tail(tok.name)
  ELSE <<" {">>

\* Concatenation of two strings given as segments.
concatSegs(a, b) ==
  IF a = <<>> THEN b
  ELSE SubSeq(a, 1, Len(a) - 1) \o <<a[Len(a)] \o b[1]>> \o Tail(b)

RECURSIVE restOfLine(_, _)
restOfLine(s, toks) ==
  IF toks = <<>> THEN s ELSE restOfLine(concatSegs(s, tokenSegs(Head(toks))), Tail(toks))

\* What /\.\.\.(.*)/ captures from "..." at token j of a line: the name and
\* everything after it up to the end of the line.
captureAt(line, j) == restOfLine(line[j].name, SubSeq(line, j + 1, Len(line)))

firstSpread(line) ==
  IF \E j \in 1..Len(line) : line[j].t = "spread"
  THEN CHOOSE j \in 1..Len(line) :
         /\ line[j].t = "spread"
         /\ \A i \in 1..(j - 1) : line[i].t # "spread"
  ELSE 0

RECURSIVE matchSpreads(_)
\* line 231 and the map of line 233: one capture per line that has a "..."
matchSpreads(lines) ==
  IF lines = <<>> THEN <<>>
  ELSE LET j == firstSpread(Head(lines))
       IN (IF j = 0 THEN <<>> ELSE <<captureAt(Head(lines), j)>>)
          \o matchSpreads(Tail(lines))

RECURSIVE uniq(_)
\* lodash/uniq: first occurrences, in order
uniq(s) ==
  IF s = <<>> THEN <<>>
  ELSE LET r == uniq(SubSeq(s, 1, Len(s) - 1))
           x == s[Len(s)]
       IN IF \E i \in 1..Len(r) : r[i] = x THEN r ELSE Append(r, x)

\* Line i is followed by "\n".
hasNewline(body, i) == i < Len(body.lines) \/ body.nl

\* The first place where `...${key}\n` occurs, as <<line, token>>, or <<0, 0>>.
occurrences(body, key) ==
  {p \in UNION {{<<i, j>> : j \in 1..Len(body.lines[i])} : i \in 1..Len(body.lines)} :
     /\ body.lines[p[1]][p[2]].t = "spread"
     /\ captureAt(body.lines[p[1]], p[2]) = key
     /\ hasNewline(body, p[1])}

firstOccurrence(body, key) ==
  LET occ == occurrences(body, key)
  IN IF occ = {} THEN <<0, 0>>
     ELSE CHOOSE p \in occ : \A q \in occ : p[1] < q[1] \/ (p[1] = q[1] /\ p[2] <= q[2])

\* line 241: body.replace(`...${key}\n`, ''): the first occurrence goes, and
\* with its newline gone what is left of the line joins the next line.
replaceSpread(body, key) ==
  LET p == firstOccurrence(body, key)
      i == p[1]
      n == Len(body.lines)
      kept == SubSeq(body.lines[i], 1, p[2] - 1)
  IN IF i = 0 THEN body
     ELSE IF i < n
     THEN Text(SubSeq(body.lines, 1, i - 1) \o <<kept \o body.lines[i + 1]>>
               \o SubSeq(body.lines, i + 2, n), body.nl)
     ELSE IF kept = <<>>
     THEN Text(SubSeq(body.lines, 1, i - 1), i > 1)
     ELSE Text(SubSeq(body.lines, 1, i - 1) \o <<kept>>, FALSE)

-----------------------------------------------------------------------------
(* gql and mergeDocuments *)

isSelection(tok) == tok.t = "field" \/ tok.t = "spread"

firstClose(toks) ==
  IF \E j \in 1..Len(toks) : toks[j].t = "close"
  THEN CHOOSE j \in 1..Len(toks) :
         /\ toks[j].t = "close"
         /\ \A i \in 1..(j - 1) : toks[i].t # "close"
  ELSE 0

spreadNames(toks) ==
  LET idx == {j \in 1..Len(toks) : toks[j].t = "spread"}
      f[j \in 0..Len(toks)] ==
        IF j = 0 THEN <<>>
        ELSE IF j \in idx THEN Append(f[j - 1], toks[j].name) ELSE f[j - 1]
  IN f[Len(toks)]

RECURSIVE parseDefinitions(_)
\* The GraphQL parser on a token stream: definitions are `header { selections }`
\* with at least one selection; anything else is a syntax error.
parseDefinitions(toks) ==
  IF toks = <<>> THEN Return(<<>>)
  ELSE LET c == firstClose(toks)
           sels == SubSeq(toks, 2, c - 1)
       IN IF \/ Head(toks).t # "open"
             \/ c < 3
             \/ \E j \in 1..Len(sels) : ~isSelection(sels[j])
          THEN Throw("GraphQLError")
          ELSE LET rest == parseDefinitions(SubSeq(toks, c + 1, Len(toks)))
                   h == Head(toks)
                   d == IF h.kind = "fragment"
                        THEN FragmentDefinition(h.name, h.type, spreadNames(sels))
                        ELSE OperationDefinition(h.name, spreadNames(sels))
               IN IF rest.ok THEN Return(<<d>> \o rest.val) ELSE rest

\* gql`${body}` (line 249): a document, or a syntax error; a text without any
\* definition is a syntax error too.
gql(body) ==
  LET r == parseDefinitions(Flatten(body.lines))
  IN IF r.ok /\ r.val # <<>>
     THEN Return([definitions |-> r.val, source |-> body])
     ELSE Throw("GraphQLError")

RECURSIVE collapse(_)
\* Fragment definitions of the same name collapse to their first occurrence.
collapse(defs) ==
  IF defs = <<>> THEN <<>>
  ELSE LET r == collapse(SubSeq(defs, 1, Len(defs) - 1))
           d == defs[Len(defs)]
       IN IF /\ d.kind = "FragmentDefinition"
             /\ \E i \in 1..Len(r) : r[i].kind = "FragmentDefinition" /\ r[i].name = d.name
          THEN r ELSE Append(r, d)

RECURSIVE allDefinitions(_)
allDefinitions(docs) ==
  IF docs = <<>> THEN <<>> ELSE Head(docs).definitions \o allDefinitions(Tail(docs))

\* text a directly followed by text b
appendText(a, b) ==
  IF a.lines = <<>> THEN b
  ELSE IF a.nl \/ b.lines = <<>>
  THEN Text(a.lines \o b.lines, IF b.lines = <<>> THEN a.nl ELSE b.nl)
  ELSE Text(SubSeq(a.lines, 1, Len(a.lines) - 1)
            \o <<a.lines[Len(a.lines)] \o Head(b.lines)>> \o Tail(b.lines), b.nl)

RECURSIVE joinTexts(_, _)
\* The text that gql is given: main, then the text of every document, each
\* followed by a newline (blank lines are not kept)
joinTexts(main, documents) ==
  IF documents = <<>> THEN main
  ELSE joinTexts([appendText(main, Head(documents).source) EXCEPT !.nl = TRUE],
                 Tail(documents))

\* coral-framework/utils mergeDocuments([main, ...documents]), main a text
mergeDocuments(main, documents) ==
  LET m == gql(main)
  IN IF ~m.ok THEN m
     ELSE Return([definitions |-> collapse(m.val.definitions \o allDefinitions(documents)),
                  source |-> joinTexts(main, documents)])

\* A contributed document: gql`fragment <name> on <type> {\n f\n ...<spreads>\n}\n`
FragDoc(name, type, spreads) ==
  [definitions |-> <<FragmentDefinition(N(name), type, spreads)>>,
   source |-> Text(<< <<Open("fragment", N(name), type)>>, <<Field>> >>
                   \o [i \in 1..Len(spreads) |-> <<Spread(spreads[i])>>]
                   \o << <<Close>> >>, TRUE)]

\* A document whose first definition is an operation: it has no typeCondition.
OpDoc(name) ==
  [definitions |-> <<OperationDefinition(N(name), <<>>)>>,
   source |-> Text(<< <<Open("query", N(name), "")>>, <<Field>>, <<Close>> >>, TRUE)]

-----------------------------------------------------------------------------
(* Fragment Assembler *)

\* The '' that both strategies return for "no fragment"
Nothing == [empty |-> TRUE]

\* `fragment ${key} on ${type} { ...${names.join('\n...')}\n }` (lines 165-169, 183-190)
mainText(key, type, names) ==
  Text(<< <<Open("fragment", key, type)>> >>
       \o [i \in 1..Len(names) |-> <<Spread(names[i])>>]
       \o << <<Close>> >>, TRUE)

\* lines 177-192
getRegistryFragmentDocument(frs, key) ==
  IF key \notin DOMAIN frs THEN Return(Nothing)
  ELSE mergeDocuments(mainText(key, frs[key].type, frs[key].names), frs[key].documents)

\* Segments that end in "TalkSlot"
endsWithTalkSlot(seg) == seg \in {"TalkSlot", "MyTalkSlot"}

\* key.match(/TalkSlot_(.*)_(.*)/) (line 148): the segment where the leftmost
\* "TalkSlot_" ends, or 0 when the pattern does not match.  Both groups are
\* greedy, so group 2 is the last segment and group 1 all that lies between.
slotMatch(key) ==
  LET starts == {i \in 1..(Len(key) - 2) : endsWithTalkSlot(key[i])}
  IN IF starts = {} THEN 0 ELSE CHOOSE i \in starts : \A j \in starts : i <= j

toLowerCase(c) ==
  CASE c = "Foo" -> "foo"
    [] c = "Bar" -> "bar"
    [] c = "Baz" -> "baz"
    [] c = "Qux" -> "qux"
    [] OTHER -> c

\* match[1][0].toLowerCase() + match[1].substr(1) (line 153); match[1] = ''
\* has no character 0
slotNameThrows(m1) == m1 = <<"">>
slotName(m1) == IF m1[1] = "" THEN m1 ELSE <<toLowerCase(m1[1])>> \o Tail(m1)

\* coral-framework/helpers/plugins getSlotFragments
getSlotFragments(sf, slot, resource) ==
  IF <<slot, resource>> \in DOMAIN sf THEN sf[<<slot, resource>>] ELSE <<>>

\* lines 147-171
getSlotFragmentDocument(sf, key) ==
  LET i == slotMatch(key)
      m1 == SubSeq(key, i + 1, Len(key) - 1)
      resource == key[Len(key)]
  IN IF i = 0 THEN Return(Nothing)
     ELSE IF slotNameThrows(m1) THEN Throw("TypeError")
     ELSE LET documents == getSlotFragments(sf, slotName(m1), resource)
          IN IF Len(documents) = 0 THEN Return(Nothing)
             ELSE IF getTypeNameThrows(documents[1]) THEN Throw("TypeError")
             ELSE mergeDocuments(
                    mainText(key, getTypeName(documents[1]),
                             [d \in 1..Len(documents) |-> getDefinitionName(documents[d])]),
                    documents)

\* Does getFragmentDocument(key) reach the call of line 155?
asksSlotFragments(frs, key) ==
  /\ key \notin DOMAIN frs
  /\ slotMatch(key) # 0
  /\ ~slotNameThrows(SubSeq(key, slotMatch(key) + 1, Len(key) - 1))

\* A lookup that tries the slot strategy first
getFragmentDocumentSlotFirst(frs, sf, key) ==
  LET r == getSlotFragmentDocument(sf, key)
  IN IF r.ok /\ r.val = Nothing THEN getRegistryFragmentDocument(frs, key) ELSE r

\* line 201, after init()
getFragmentDocument(frs, sf, key) ==
  LET r == getRegistryFragmentDocument(frs, key)
  IN IF r.ok /\ r.val = Nothing THEN getSlotFragmentDocument(sf, key) ELSE r

-----------------------------------------------------------------------------
(* Spread Resolver *)

\* key.startsWith('TalkSlot_') (line 238)
startsWithTalkSlot(key) == Len(key) >= 2 /\ key[1] = "TalkSlot"

RECURSIVE resolveEach(_, _, _, _, _)
\* the forEach of lines 234-243, then lines 245-249
resolveEach(frs, sf, keys, body, subFragments) ==
  IF keys = <<>>
  THEN IF Len(subFragments) > 0 THEN mergeDocuments(body, subFragments) ELSE gql(body)
  ELSE LET key == Head(keys)
           doc == getFragmentDocument(frs, sf, key)
       IN IF ~doc.ok THEN doc
          ELSE IF doc.val # Nothing
          THEN resolveEach(frs, sf, Tail(keys), body, Append(subFragments, doc.val))
          ELSE IF startsWithTalkSlot(key)
          THEN resolveEach(frs, sf, Tail(keys), replaceSpread(body, key), subFragments)
          ELSE resolveEach(frs, sf, Tail(keys), body, subFragments)

\* line 233: the distinct captured names
spreadKeys(document) == uniq(matchSpreads(document.source.lines))

\* lines 225-254, after init()
resolveFragments(frs, sf, document) ==
  IF document.source.none THEN Return(document)
  ELSE resolveEach(frs, sf, spreadKeys(document), document.source, <<>>)

RECURSIVE countSlotCalls(_, _, _)
\* getSlotFragments() calls made while the keys are resolved in order
countSlotCalls(frs, sf, keys) ==
  IF keys = <<>> THEN 0
  ELSE (IF asksSlotFragments(frs, Head(keys)) THEN 1 ELSE 0)
       + (IF getFragmentDocument(frs, sf, Head(keys)).ok
          THEN countSlotCalls(frs, sf, Tail(keys)) ELSE 0)

-----------------------------------------------------------------------------
(* Inputs *)

SlotFooBar == <<"TalkSlot", "Foo", "Bar">>
SlotBazQux == <<"TalkSlot", "Baz", "Qux">>
SlotNoName == <<"TalkSlot", "", "Bar">>
Missing == N("Missing")

NoSlotFragments == [x \in {} |-> <<>>]

Environment(g, e, s) == [globalFragments |-> g, extensions |-> e, slotFragments |-> s]

\* Installations: the built-in fragments, the plugins' extensions in discovery
\* order, and the plugins' slot fragments.
\* one built-in fragment, no plugins
PlainEnvironment ==
  Environment(<< <<K, FragDoc("F1", "User", <<>>)>> >>, <<>>, NoSlotFragments)

Environments ==
  { PlainEnvironment,
    \* K's built-in fragment spreads J; plugins add to K on another type, repeat
    \* a mutation config, and fill slot foo for resource Bar
    Environment(
      << <<K, FragDoc("F1", "User", <<J>>)>>, <<J, FragDoc("F3", "Comment", <<>>)>> >>,
      << [fragments |-> << <<K, FragDoc("F2", "Asset", <<>>)>> >>,
          mutations |-> << <<M, "c1">> >>,
          queries |-> << <<M, "c2">> >>],
         [fragments |-> <<>>,
          mutations |-> << <<M, "c1">>, <<K, "c3">> >>,
          queries |-> << <<M, "c4">> >>] >>,
      <<N("foo"), "Bar">> :> <<FragDoc("P1", "Comment", <<>>)>>),
    \* a built-in fragment named like its key, a key of the slot form, and two
    \* fragments in slot foo for resource Bar
    Environment(
      << <<K, FragDoc("K", "User", <<>>)>>, <<SlotFooBar, FragDoc("F4", "User", <<>>)>> >>,
      << [fragments |-> << <<K, FragDoc("F2", "User", <<>>)>> >>,
          mutations |-> <<>>,
          queries |-> << <<M, "c2">> >>] >>,
      <<N("foo"), "Bar">> :> <<FragDoc("P1", "Comment", <<>>), FragDoc("P2", "User", <<>>)>>) }

\* Installations in which a contributed document has no fragment definition
FailingEnvironments ==
  { Environment(
      << <<K, FragDoc("F1", "User", <<>>)>>, <<J, OpDoc("Q")>> >>,
      << [fragments |-> <<>>, mutations |-> << <<M, "c1">> >>, queries |-> <<>>] >>,
      NoSlotFragments),
    Environment(
      << <<K, FragDoc("F1", "User", <<>>)>> >>,
      << [fragments |-> << <<K, FragDoc("F2", "User", <<>>)>>, <<J, OpDoc("Q")>> >>,
          mutations |-> << <<M, "c1">> >>,
          queries |-> <<>>] >>,
      <<N("foo"), "Bar">> :> <<FragDoc("P1", "Comment", <<>>)>>) }

\* Arguments of the public add-functions
AddedDocuments == {FragDoc("X1", "Asset", <<>>), OpDoc("Q")}
AddedConfigs == {"p1"}
AddedExtensions ==
  { [fragments |-> << <<K, FragDoc("X2", "User", <<>>)>> >>,
     mutations |-> << <<M, "p1">> >>,
     queries |-> <<>>] }

OptionKeys == {M, K}
FragmentKeys == {K, J, Missing, SlotFooBar, SlotBazQux, SlotNoName,
                 <<"TalkSlot", "Foo">>, <<"MyTalkSlot", "Foo", "Bar">>,
                 <<"TalkSlot", "Foo", "Bar", "Baz">>}

SpreadNames == {K, Missing, SlotFooBar, SlotNoName}
Selections == {Field} \cup {Spread(n) : n \in SpreadNames}
SelectionLists ==
  {<<a>> : a \in Selections}
  \cup { <<Field, Spread(K)>>, <<Field, Spread(SlotFooBar)>>,
         <<Spread(SlotFooBar), Spread(SlotFooBar)>>, <<Spread(SlotFooBar), Spread(K)>>,
         <<Spread(K), Spread(SlotFooBar)>>, <<Spread(Missing), Spread(K)>>,
         <<Spread(SlotNoName), Spread(K)>> }

QueryHead == Open("query", N("Q"), "")

\* `query Q {` / one selection per line / `}`, newline at the end
multiLine(sels) ==
  Text(<< <<QueryHead>> >> \o [i \in 1..Len(sels) |-> <<sels[i]>>] \o << <<Close>> >>, TRUE)

\* `query Q { selections }` on one line without a newline
oneLine(sels) == Text(<< <<QueryHead>> \o sels \o <<Close>> >>, FALSE)

\* the closing brace on the line of the last selection
closeOnLast(sels) ==
  Text(<< <<QueryHead>> >> \o [i \in 1..(Len(sels) - 1) |-> <<sels[i]>>]
       \o << <<sels[Len(sels)], Close>> >>, TRUE)

SourceTexts ==
  UNION {{multiLine(sels), oneLine(sels), closeOnLast(sels)} : sels \in SelectionLists}

\* A document made by gql keeps its source text; one built otherwise has none.
Documents ==
  {[definitions |-> gql(b).val.definitions, source |-> b] : b \in SourceTexts}
  \cup {[definitions |-> <<OperationDefinition(N("Q"), <<K>>)>>, source |-> NoSource]}

\* The calls made before init() has returned: the one that enters init() and
\* those made from inside it.
EarlyCalls ==
  { [op |-> "getMutationOptions", arg |-> [key |-> M]],
    [op |-> "getQueryOptions", arg |-> [key |-> M]],
    [op |-> "getFragmentDocument", arg |-> [key |-> K]],
    [op |-> "resolveFragments",
     arg |-> [definitions |-> gql(multiLine(<<Spread(K)>>)).val.definitions,
              source |-> multiLine(<<Spread(K)>>)]],
    [op |-> "resolveFragments",
     arg |-> [definitions |-> gql(multiLine(<<Field>>)).val.definitions,
              source |-> multiLine(<<Field>>)]] }

-----------------------------------------------------------------------------
(* State machine *)

NoCall == [op |-> "none", arg |-> [none |-> TRUE]]

ReadOps == {"getMutationOptions", "getQueryOptions", "getFragmentDocument",
            "resolveFragments"}

\* What a call is seen to do: it returns val (a list of configs, a document,
\* Nothing, or undefined from an add-function) or throws val
Configs(list) == [configs |-> list]
Error(e) == [error |-> e]
Undefined == [undefined |-> TRUE]

Returned(op, arg, r, n) ==
  [op |-> op, arg |-> arg, ok |-> r.ok,
   val |-> IF ~r.ok THEN Error(r.val) ELSE IF op \in ReadOps THEN r.val ELSE Undefined,
   slotCalls |-> n]

InitIn(environments) ==
  /\ fragments = [x \in {} |-> <<>>]
  /\ mutationOptions = [x \in {} |-> <<>>]
  /\ queryOptions = [x \in {} |-> <<>>]
  /\ initialized = FALSE
  /\ \E e \in environments :
       /\ globalFragments = e.globalFragments
       /\ extensions = e.extensions
       /\ slotFragments = e.slotFragments
  /\ initPc = "idle"
  /\ initPos = 0
  /\ pending = NoCall
  /\ last = Returned("none", NoCall.arg, Return("undefined"), 0)
  /\ log = <<>>
  /\ reentered = FALSE
  /\ gateRuns = 0
  /\ discoveryCalls = 0
  /\ nAdds = 0

Init == InitIn(Environments)

\* The installations in which init() can abort, next to one in which it cannot
InitAbort == InitIn(FailingEnvironments \cup {PlainEnvironment})

\* An init() that forgets to set the flag
initEntryKeepingFlag(flag) == [run |-> ~flag, flag |-> flag]

\* lines 209-210: whether the body runs, and the flag it leaves behind
initEntry(flag) == [run |-> ~flag, flag |-> TRUE]

\* Does the call reach init()?  resolveFragments reaches it through
\* getFragmentDocument, once per captured name.
callsInit(call) ==
  call.op # "resolveFragments"
  \/ (~call.arg.source.none /\ spreadKeys(call.arg) # <<>>)

\* What a read accessor computes once init() has returned
readResult(call, frs, mo, qo, sf) ==
  CASE call.op = "getMutationOptions" ->
         Returned(call.op, call.arg, Return(Configs(getOptions(mo, call.arg.key))), 0)
    [] call.op = "getQueryOptions" ->
         Returned(call.op, call.arg, Return(Configs(getOptions(qo, call.arg.key))), 0)
    [] call.op = "getFragmentDocument" ->
         Returned(call.op, call.arg, getFragmentDocument(frs, sf, call.arg.key),
                  IF asksSlotFragments(frs, call.arg.key) THEN 1 ELSE 0)
    [] call.op = "resolveFragments" ->
         Returned(call.op, call.arg, resolveFragments(frs, sf, call.arg),
                  IF call.arg.source.none THEN 0
                  ELSE countSlotCalls(frs, sf, spreadKeys(call.arg)))

\* A read accessor is called.  The first call that reaches init() enters its
\* body and waits for it; any other call (also one made from inside the
\* running init()) passes the gate and reads the store as it is.
Read(call) ==
  /\ initPc \in {"done", "failed"} \/ call \in EarlyCalls
  /\ IF callsInit(call) /\ initEntry(initialized).run
     THEN /\ initialized' = initEntry(initialized).flag
          /\ gateRuns' = gateRuns + 1
          /\ initPc' = "builtin"
          /\ initPos' = 1
          /\ pending' = call
          /\ UNCHANGED <<fragments, mutationOptions, queryOptions, env, last, log,
                         reentered, discoveryCalls, nAdds>>
     ELSE /\ last' = readResult(call, fragments, mutationOptions, queryOptions, slotFragments)
          /\ reentered' = (reentered \/ initPc \in {"builtin", "plugins"})
          /\ UNCHANGED <<fragments, mutationOptions, queryOptions, initialized, env,
                         initPc, initPos, pending, log, gateRuns, discoveryCalls, nAdds>>

GetMutationOptions(key) == Read([op |-> "getMutationOptions", arg |-> [key |-> key]])
GetQueryOptions(key) == Read([op |-> "getQueryOptions", arg |-> [key |-> key]])
GetFragmentDocument(key) == Read([op |-> "getFragmentDocument", arg |-> [key |-> key]])
ResolveFragments(document) == Read([op |-> "resolveFragments", arg |-> document])

\* resolveFragments is called on the document that it has just returned for
\* one of Documents
ResolveOutput ==
  /\ last.op = "resolveFragments"
  /\ last.ok
  /\ last.arg \in Documents
  /\ ResolveFragments(last.val)

\* init() applies one contribution; an exception ends init() and the read
\* that entered it.
InitApply(items) ==
  LET r == applyItem(Store(fragments, mutationOptions, queryOptions), items[initPos])
  IN IF r.ok
     THEN /\ fragments' = r.val.fragments
          /\ mutationOptions' = r.val.mutationOptions
          /\ queryOptions' = r.val.queryOptions
          /\ initPos' = initPos + 1
          /\ log' = Append(log, items[initPos])
          /\ UNCHANGED <<initPc, pending, last>>
     ELSE /\ initPc' = "failed"
          /\ initPos' = 0
          /\ pending' = NoCall
          /\ last' = Returned(pending.op, pending.arg, Throw(r.val), 0)
          /\ UNCHANGED <<fragments, mutationOptions, queryOptions, log>>

\* lines 213-215
InitBuiltin ==
  /\ initPc = "builtin"
  /\ initPos <= Len(globalFragments)
  /\ InitApply(builtinItems(globalFragments))
  /\ UNCHANGED <<initialized, env, reentered, gateRuns, discoveryCalls, nAdds>>

\* line 218: getGraphQLExtensions()
InitDiscover ==
  /\ initPc = "builtin"
  /\ initPos > Len(globalFragments)
  /\ discoveryCalls' = discoveryCalls + 1
  /\ initPc' = "plugins"
  /\ initPos' = 1
  /\ UNCHANGED <<fragments, mutationOptions, queryOptions, initialized, env,
                 pending, last, log, reentered, gateRuns, nAdds>>

\* line 218: forEach((ext) => add(ext))
InitPlugin ==
  /\ initPc = "plugins"
  /\ initPos <= Len(pluginItems(extensions))
  /\ InitApply(pluginItems(extensions))
  /\ UNCHANGED <<initialized, env, reentered, gateRuns, discoveryCalls, nAdds>>

\* init() returns and the read that entered it goes on
InitReturn ==
  /\ initPc = "plugins"
  /\ initPos > Len(pluginItems(extensions))
  /\ initPc' = "done"
  /\ initPos' = 0
  /\ pending' = NoCall
  /\ last' = readResult(pending, fragments, mutationOptions, queryOptions, slotFragments)
  /\ UNCHANGED <<fragments, mutationOptions, queryOptions, initialized, env,
                 log, reentered, gateRuns, discoveryCalls, nAdds>>

\* A public add-function is called, before or after init(); r is what it does
\* to the store.
PublicAdd(op, arg, r) ==
  /\ nAdds < MaxAdds
  /\ initPc \in {"idle", "done", "failed"}
  /\ fragments' = r.st.fragments
  /\ mutationOptions' = r.st.mutationOptions
  /\ queryOptions' = r.st.queryOptions
  /\ last' = Returned(op, arg, [ok |-> r.ok, val |-> r.val], 0)
  /\ log' = log \o r.done
  /\ nAdds' = nAdds + 1
  /\ UNCHANGED <<initialized, env, initPc, initPos, pending, reentered, gateRuns,
                 discoveryCalls>>

store == Store(fragments, mutationOptions, queryOptions)

AddFragment(key, document) ==
  PublicAdd("addFragment", [key |-> key, document |-> document],
            applyItems(store, <<Item("addFragment", key, document)>>))

AddMutationOptions(key, config) ==
  PublicAdd("addMutationOptions", [key |-> key, config |-> config],
            applyItems(store, <<Item("addMutationOptions", key, config)>>))

AddQueryOptions(key, config) ==
  PublicAdd("addQueryOptions", [key |-> key, config |-> config],
            applyItems(store, <<Item("addQueryOptions", key, config)>>))

Add(extension) == PublicAdd("add", extension, add(store, extension))

Next ==
  \/ \E key \in {K}, document \in AddedDocuments : AddFragment(key, document)
  \/ \E key \in {M}, config \in AddedConfigs : AddMutationOptions(key, config)
  \/ \E key \in {M}, config \in AddedConfigs : AddQueryOptions(key, config)
  \/ \E extension \in AddedExtensions : Add(extension)
  \/ \E key \in OptionKeys : GetMutationOptions(key)
  \/ \E key \in OptionKeys : GetQueryOptions(key)
  \/ \E key \in FragmentKeys : GetFragmentDocument(key)
  \/ \E document \in Documents : ResolveFragments(document)
  \/ ResolveOutput
  \/ InitBuiltin
  \/ InitDiscover
  \/ InitPlugin
  \/ InitReturn

Spec == Init /\ [][Next]_vars

SpecAbort == InitAbort /\ [][Next]_vars

-----------------------------------------------------------------------------
(* Vocabulary of the properties *)

AddFunctions == {"addFragment", "addMutationOptions", "addQueryOptions"}
AllKeys == {K, J, M, SlotFooBar}

\* What the store holds for a key of one add-function
valuesAt(frs, mo, qo, fn, key) ==
  IF fn = "addFragment" THEN (IF key \in DOMAIN frs THEN frs[key].documents ELSE <<>>)
  ELSE IF fn = "addMutationOptions" THEN (IF key \in DOMAIN mo THEN mo[key] ELSE <<>>)
  ELSE (IF key \in DOMAIN qo THEN qo[key] ELSE <<>>)

stored(fn, key) == valuesAt(fragments, mutationOptions, queryOptions, fn, key)

\* The values that the calls recorded in lg gave to fn under key, in call order
logged(lg, fn, key) ==
  LET f[i \in 0..Len(lg)] ==
        IF i = 0 THEN <<>>
        ELSE IF lg[i].fn = fn /\ lg[i].key = key THEN Append(f[i - 1], lg[i].val)
        ELSE f[i - 1]
  IN f[Len(lg)]

countIn(seq, v) == Cardinality({i \in 1..Len(seq) : seq[i] = v})

Range(seq) == {seq[i] : i \in 1..Len(seq)}

gateItems == builtinItems(globalFragments) \o pluginItems(extensions)

\* How often init() is given the contribution it
contributed(it) ==
  Cardinality({j \in 1..Len(gateItems) :
                 /\ gateItems[j].fn = it.fn
                 /\ gateItems[j].key = it.key
                 /\ gateItems[j].val = it.val})

\* The contributions that a public add-call hands to the store
callItems(call) ==
  IF call.op = "add" THEN itemsOf(call.arg)
  ELSE IF call.op = "addFragment"
  THEN <<Item(call.op, call.arg.key, call.arg.document)>>
  ELSE <<Item(call.op, call.arg.key, call.arg.config)>>

\* The step records a call that the state before it does not show
returns(a, b) == a # b

isFragmentDocument(document) ==
  document.definitions[1].kind = "FragmentDefinition"

-----------------------------------------------------------------------------
(* C1 *)

C1_AtMostOnce ==
  /\ gateRuns <= 1
  /\ discoveryCalls <= 1
  /\ \A i \in 1..Len(gateItems) :
       countIn(stored(gateItems[i].fn, gateItems[i].key), gateItems[i].val)
         <= contributed(gateItems[i])

C1_ExactlyOnceWhenDone ==
  initPc = "done" =>
    /\ gateRuns = 1
    /\ discoveryCalls = 1
    /\ \A i \in 1..Len(gateItems) :
         countIn(stored(gateItems[i].fn, gateItems[i].key), gateItems[i].val)
           = contributed(gateItems[i])

\* C1: however many read accessor calls are made, also from inside the
\* running init(), the body of init() is entered at most once and
\* getGraphQLExtensions() is called at most once; no built-in fragment and no
\* entry of a plugin extension is stored more often than it was contributed,
\* and once init() has returned each of them is stored exactly as often as it
\* was contributed (once); initialized never goes back to false.
C1_LazyInitRunsOnce ==
  /\ [](C1_AtMostOnce /\ C1_ExactlyOnceWhenDone)
  /\ [][initialized => initialized']_vars

\* init() has returned although a read was made from inside it, and a read
\* made after it has returned too.
C1_Witness ==
  /\ initPc = "done"
  /\ reentered
  /\ gateRuns = 1
  /\ Len(gateItems) >= 2
  /\ last.op = "getFragmentDocument"
  /\ last.arg.key = SlotFooBar

-----------------------------------------------------------------------------
(* C2 *)

\* C2 as claimed: once init() has returned, a call of an add-function leaves
\* the three mappings as they are.
C2_StoreReadOnlyAfterInit ==
  [][(initPc = "done" /\ nAdds' # nAdds)
       => UNCHANGED <<fragments, mutationOptions, queryOptions>>]_vars

\* C2, amended: once init() has returned the store is not read-only.  A later
\* add-call appends every contribution it stores to the list of its key, after
\* what the list held, and leaves all other lists alone; an addFragment of a
\* document without fragment definition throws and stores nothing; init() is
\* not run again; a later getMutationOptions/getQueryOptions returns the
\* list with the appended configs.
C2_AddAfterInitAppends ==
  /\ [][(initPc = "done" /\ nAdds' # nAdds) =>
          /\ gateRuns' = gateRuns
          /\ initPc' = "done"
          /\ last'.ok = (\A i \in 1..Len(callItems(last')) :
                           callItems(last')[i].fn = "addFragment"
                             => isFragmentDocument(callItems(last')[i].val))
          /\ \A fn \in AddFunctions, key \in AllKeys :
               valuesAt(fragments', mutationOptions', queryOptions', fn, key)
                 = stored(fn, key)
                   \o (IF last'.ok THEN logged(callItems(last'), fn, key) ELSE <<>>)]_vars
  /\ []((initPc = "done" /\ last.op = "getMutationOptions")
          => last.val = Configs(stored("addMutationOptions", last.arg.key)))
  /\ []((initPc = "done" /\ last.op = "getQueryOptions")
          => last.val = Configs(stored("addQueryOptions", last.arg.key)))

\* addMutationOptions was called after init() had returned and its config
\* stands behind the plugins' configs.
C2_Witness ==
  /\ initPc = "done"
  /\ last.op = "addMutationOptions"
  /\ last.ok
  /\ stored("addMutationOptions", M) = <<"c1", "c1", "p1">>

-----------------------------------------------------------------------------
(* C3 *)

optionFunction(op) ==
  IF op = "getMutationOptions" THEN "addMutationOptions" ELSE "addQueryOptions"

\* C3: getMutationOptions(key) returns the configs that addMutationOptions
\* was given for that key so far, in call order and with repetitions, and
\* getQueryOptions(key) those of addQueryOptions; for a key without any the
\* result is the empty sequence.
C3_OptionsAreTheContributions ==
  [][(returns(last, last') /\ last'.op \in {"getMutationOptions", "getQueryOptions"})
       => /\ last'.ok
          /\ last'.val = Configs(logged(log', optionFunction(last'.op), last'.arg.key))]_vars

\* A key with the same config twice, and a different list for queries
C3_Witness ==
  /\ last.op = "getMutationOptions"
  /\ last.arg.key = M
  /\ last.ok
  /\ Len(last.val.configs) >= 2
  /\ last.val.configs[1] = last.val.configs[2]
  /\ stored("addQueryOptions", M) # <<>>
  /\ stored("addQueryOptions", M) # last.val.configs

-----------------------------------------------------------------------------
(* Vocabulary of the properties of documents *)

\* The spread names that the GraphQL parser sees in the document's text
textSpreads(document) == Range(spreadNames(Flatten(document.source.lines)))

definitionsOf(document) == Range(document.definitions)

\* The spread names inside a set of definitions
spreadsIn(defs) == UNION {Range(d.spreads) : d \in defs}

hasDefinition(document, kind, name) ==
  \E e \in definitionsOf(document) : e.kind = kind /\ e.name = name

\* resolveFragments has returned or thrown for a document that carries its
\* text, and the store is as that call saw it
resolved ==
  /\ initPc = "done"
  /\ last.op = "resolveFragments"
  /\ ~last.arg.source.none

\* The fragments that the plugins registered for the (slot, resource) pair
\* that the name denotes; none for a name that is no slot reference
slotContributions(key) ==
  LET i == slotMatch(key)
  IN IF i = 0 THEN <<>>
     ELSE getSlotFragments(slotFragments, slotName(SubSeq(key, i + 1, Len(key) - 1)),
                           key[Len(key)])

\* getFragmentDocument(key) on the present store gives a document
resolvable(key) ==
  LET r == getFragmentDocument(fragments, slotFragments, key)
  IN IF r.ok THEN r.val # Nothing ELSE FALSE

\* The definitions of the fragment assembled for the key
assembled(key) ==
  IF resolvable(key)
  THEN definitionsOf(getFragmentDocument(fragments, slotFragments, key).val)
  ELSE {}

RECURSIVE reachable(_)
\* The names reachable from a set of names through chains of spreads
reachable(names) ==
  LET more == names \cup spreadsIn(UNION {assembled(n) : n \in names})
  IN IF more = names THEN names ELSE reachable(more)

-----------------------------------------------------------------------------
(* C4 *)

\* C4: for a document with source text and every spread name k of the text
\* that is a key of the store, resolveFragments returns a document that has
\* the definitions of the original document, a fragment definition named k on
\* the stored type of k, and a fragment definition of the name and type of
\* every document contributed under k.
C4_ResolveIncludesRegistryFragments ==
  resolved =>
    \A k \in textSpreads(last.arg) \cap DOMAIN fragments :
      /\ last.ok
      /\ \A d \in definitionsOf(last.arg) : hasDefinition(last.val, d.kind, d.name)
      /\ \E e \in definitionsOf(last.val) :
           /\ e.kind = "FragmentDefinition"
           /\ e.name = k
           /\ e.typeCondition = fragments[k].type
      /\ \A i \in 1..Len(fragments[k].documents) :
           \E e \in definitionsOf(last.val) :
             /\ e.kind = "FragmentDefinition"
             /\ e.name = getDefinitionName(fragments[k].documents[i])
             /\ e.typeCondition = getTypeName(fragments[k].documents[i])

\* `query Q { ...K }` on one line, K a key of the store: the document comes
\* back without any fragment definition.
C4_Witness ==
  /\ resolved
  /\ last.arg.source = oneLine(<<Spread(K)>>)
  /\ K \in DOMAIN fragments
  /\ last.ok
  /\ ~hasDefinition(last.val, "FragmentDefinition", K)
  /\ Len(last.val.definitions) = 1

-----------------------------------------------------------------------------
(* C5 *)

\* C5: resolveFragments returns a self-contained document: for every name
\* reachable from the spreads of the document's text through chains of
\* spreads, also those inside contributed fragment documents, that
\* getFragmentDocument resolves, the definitions of its assembled fragment are
\* in the returned document.
C5_TransitiveResolution ==
  resolved =>
    \A n \in reachable(textSpreads(last.arg)) :
      resolvable(n) => (last.ok /\ assembled(n) \subseteq definitionsOf(last.val))

\* `...K` on a line of its own, the fragment F1 under K spreads the key J:
\* K is resolved, J is not looked up.
C5_Witness ==
  /\ resolved
  /\ last.arg.source = multiLine(<<Spread(K)>>)
  /\ last.ok
  /\ assembled(K) \subseteq definitionsOf(last.val)
  /\ J \in spreadsIn(definitionsOf(last.val))
  /\ resolvable(J)
  /\ ~hasDefinition(last.val, "FragmentDefinition", J)

-----------------------------------------------------------------------------
(* C6 *)

\* C6: for every spread name of the document's text that begins with
\* TalkSlot_, is no key of the store and has no slot contribution,
\* resolveFragments returns a document in which no definition spreads that
\* name and no definition has that name.
C6_EmptySlotElision ==
  resolved =>
    \A n \in textSpreads(last.arg) :
      (startsWithTalkSlot(n) /\ n \notin DOMAIN fragments /\ slotContributions(n) = <<>>)
        => /\ last.ok
           /\ n \notin spreadsIn(definitionsOf(last.val))
           /\ ~hasDefinition(last.val, "FragmentDefinition", n)

\* `query Q { f ...TalkSlot_Foo_Bar }` on one line and nothing in slot foo:
\* the spread is still in the returned document.
C6_Witness ==
  /\ resolved
  /\ last.arg.source = oneLine(<<Field, Spread(SlotFooBar)>>)
  /\ SlotFooBar \notin DOMAIN fragments
  /\ slotContributions(SlotFooBar) = <<>>
  /\ last.ok
  /\ SlotFooBar \in spreadsIn(definitionsOf(last.val))

-----------------------------------------------------------------------------
(* C7 *)

\* C7: a name TalkSlot_<SlotName>_<ResourceName> that is no key of the store
\* is resolved by the slot strategy: with fragments registered for (slotName,
\* ResourceName), getFragmentDocument asks getSlotFragments once and returns a
\* document with their definitions, and resolveFragments of a document that
\* spreads the name returns a document with their definitions.
C7_SlotReferenceResolved ==
  /\ (initPc = "done" /\ last.op = "getFragmentDocument") =>
       LET n == last.arg.key
       IN (slotMatch(n) # 0 /\ n \notin DOMAIN fragments /\ slotContributions(n) # <<>>)
            => /\ last.ok
               /\ last.slotCalls = 1
               /\ \A i \in 1..Len(slotContributions(n)) :
                    slotContributions(n)[i].definitions[1] \in definitionsOf(last.val)
  /\ resolved =>
       \A n \in textSpreads(last.arg) :
         (slotMatch(n) # 0 /\ n \notin DOMAIN fragments /\ slotContributions(n) # <<>>)
           => /\ last.ok
              /\ \A i \in 1..Len(slotContributions(n)) :
                   slotContributions(n)[i].definitions[1] \in definitionsOf(last.val)

\* `query Q { ...TalkSlot_Foo_Bar }` on one line, P1 registered for slot foo
\* and resource Bar: P1 is not in the returned document.
C7_Witness ==
  /\ resolved
  /\ last.arg.source = oneLine(<<Spread(SlotFooBar)>>)
  /\ SlotFooBar \notin DOMAIN fragments
  /\ Len(slotContributions(SlotFooBar)) = 1
  /\ last.ok
  /\ slotContributions(SlotFooBar)[1].definitions[1] \notin definitionsOf(last.val)

-----------------------------------------------------------------------------
(* C8 *)

\* C8: for every key that is no key of the store and has no slot fragments
\* (it does not match the slot pattern, or matches it with any slot part, the
\* empty one included, and any resource part), getFragmentDocument(key)
\* returns the empty result and does not throw.
C8_MissIsEmpty ==
  (initPc = "done" /\ last.op = "getFragmentDocument")
    => ((last.arg.key \notin DOMAIN fragments /\ slotContributions(last.arg.key) = <<>>)
          => (last.ok /\ last.val = Nothing))

\* getFragmentDocument('TalkSlot__Bar') throws a TypeError.
C8_Witness ==
  /\ initPc = "done"
  /\ last.op = "getFragmentDocument"
  /\ last.arg.key = SlotNoName
  /\ SlotNoName \notin DOMAIN fragments
  /\ slotContributions(SlotNoName) = <<>>
  /\ ~last.ok
  /\ last.val = Error("TypeError")

-----------------------------------------------------------------------------
(* C9 *)

namesOf(documents) == [i \in 1..Len(documents) |-> getDefinitionName(documents[i])]

\* No call is running: what `last` shows is the latest call on the present store
quiescent == initPc \in {"idle", "done", "failed"}

\* C9: under every key, names is the list of the definition names of the
\* documents that addFragment was given for the key, in call order, and the
\* fragment that getFragmentDocument(key) synthesizes is named key and spreads
\* exactly these names in that order.
C9_OrderPreserved ==
  /\ \A k \in FragmentKeys :
       IF k \in DOMAIN fragments
       THEN fragments[k].names = namesOf(logged(log, "addFragment", k))
       ELSE logged(log, "addFragment", k) = <<>>
  /\ (initPc = "done" /\ last.op = "getFragmentDocument"
        /\ last.arg.key \in DOMAIN fragments)
       => /\ last.ok
          /\ last.val.definitions[1].kind = "FragmentDefinition"
          /\ last.val.definitions[1].name = last.arg.key
          /\ last.val.definitions[1].spreads
               = namesOf(logged(log, "addFragment", last.arg.key))

\* F1 and then F2 were registered under K, and getFragmentDocument(K) spreads
\* ...F1 and ...F2 in that order, before what was added later.
C9_Witness ==
  /\ initPc = "done"
  /\ last.op = "getFragmentDocument"
  /\ last.arg.key = K
  /\ last.ok
  /\ Len(last.val.definitions[1].spreads) >= 2
  /\ SubSeq(last.val.definitions[1].spreads, 1, 2) = <<N("F1"), N("F2")>>
  /\ SubSeq(fragments[K].names, 1, 2) = <<N("F1"), N("F2")>>

-----------------------------------------------------------------------------
(* C10 *)

\* C10: under every key the stored type is the type of the first document
\* that addFragment was given for the key, and names and documents hold every
\* document given, in call order; a contribution of a fragment on another type
\* does not throw, neither from init() nor from a public call, and is
\* appended like any other.
C10_FirstTypeWins ==
  /\ \A k \in DOMAIN fragments :
       LET docs == logged(log, "addFragment", k)
       IN /\ docs # <<>>
          /\ fragments[k].type = getTypeName(docs[1])
          /\ fragments[k].documents = docs
          /\ fragments[k].names = namesOf(docs)
  /\ initPc # "failed"
  /\ (quiescent /\ last.op = "addFragment" /\ isFragmentDocument(last.arg.document))
       => /\ last.ok
          /\ last.arg.key \in DOMAIN fragments
          /\ LET g == fragments[last.arg.key]
             IN /\ g.documents[Len(g.documents)] = last.arg.document
                /\ g.names[Len(g.names)] = getDefinitionName(last.arg.document)

\* K was first given a fragment on User; a public addFragment of a fragment on
\* Asset has returned, the type is still User and the document is stored.
C10_Witness ==
  /\ quiescent
  /\ last.op = "addFragment"
  /\ last.ok
  /\ getTypeName(last.arg.document) = "Asset"
  /\ fragments[last.arg.key].type = "User"
  /\ Len(fragments[last.arg.key].documents) >= 2
  /\ fragments[last.arg.key].documents[Len(fragments[last.arg.key].documents)]
       = last.arg.document

-----------------------------------------------------------------------------
(* C11 *)

\* C11: resolveFragments called again on the same document returns what the
\* first call returned, and resolveFragments called on the document that it
\* returned gives a document with the same set of definitions: none is added,
\* none is lost.
C11_ResolutionIdempotent ==
  /\ resolved =>
       LET again == resolveFragments(fragments, slotFragments, last.arg)
       IN again.ok = last.ok /\ (last.ok => again.val = last.val)
  /\ (resolved /\ last.arg \notin Documents) =>
       (last.ok /\ definitionsOf(last.val) = definitionsOf(last.arg))

\* The document returned for `...K` holds F1, which spreads the key J; given
\* back to resolveFragments it comes out with the definitions of J added.
C11_Witness ==
  /\ resolved
  /\ last.arg \notin Documents
  /\ last.arg = resolveFragments(fragments, slotFragments,
                                 gql(multiLine(<<Spread(K)>>)).val).val
  /\ last.ok
  /\ ~hasDefinition(last.arg, "FragmentDefinition", J)
  /\ hasDefinition(last.val, "FragmentDefinition", J)
  /\ definitionsOf(last.arg) \subseteq definitionsOf(last.val)

-----------------------------------------------------------------------------
(* C12 *)

\* The store holds every built-in fragment and every entry of every extension
populated ==
  \A i \in 1..Len(gateItems) :
    countIn(stored(gateItems[i].fn, gateItems[i].key), gateItems[i].val) >= 1

callOf(l) == [op |-> l.op, arg |-> l.arg]

\* C12 as claimed: a read accessor call that reaches init() computes its
\* result on a store that holds every built-in fragment and every entry of
\* every plugin extension, also when it is made while init() is running.
\* (The store only grows, so a store that is not populated now was not
\* populated when `last` was computed.)
C12_ReadsSeePopulatedStore ==
  (last.op \in ReadOps /\ callsInit(callOf(last))) => populated

\* C12, amended: a read accessor call that reaches init() and is not made
\* from inside the running init() computes its result on the populated store
\* once init() has returned; a read made while init() is running finds the
\* flag set, starts nothing, changes nothing and computes its result on the
\* store as init() has filled it so far.
C12_ReadsOutsideInitSeePopulatedStore ==
  /\ []((initPc = "done" /\ last.op \in ReadOps)
          => /\ populated
             /\ last = readResult(callOf(last), fragments, mutationOptions,
                                  queryOptions, slotFragments))
  /\ [][(initPc \in {"builtin", "plugins"} /\ initPc' \in {"builtin", "plugins"}
           /\ returns(last, last'))
          => /\ last'.op \in ReadOps
             /\ last' = readResult(callOf(last'), fragments, mutationOptions,
                                   queryOptions, slotFragments)
             /\ UNCHANGED <<fragments, mutationOptions, queryOptions, initialized,
                            initPc, initPos, pending, log, gateRuns, discoveryCalls>>]_vars

\* getFragmentDocument(K) was called from inside init() before the built-in
\* fragment of K was stored, and returned nothing.
C12_Witness ==
  /\ initPc = "builtin"
  /\ initPos = 1
  /\ reentered
  /\ last.op = "getFragmentDocument"
  /\ last.arg.key = K
  /\ last.ok
  /\ last.val = Nothing
  /\ gateItems[1].key = K
  /\ ~populated

-----------------------------------------------------------------------------
(* C13 *)

\* The values that a list of <<key, value>> entries holds for the key, in order
valuesFor(entries, key) ==
  LET f[i \in 0..Len(entries)] ==
        IF i = 0 THEN <<>>
        ELSE IF entries[i][1] = key THEN Append(f[i - 1], entries[i][2]) ELSE f[i - 1]
  IN f[Len(entries)]

entriesOf(extension, fn) ==
  IF fn = "addFragment" THEN extension.fragments
  ELSE IF fn = "addMutationOptions" THEN extension.mutations
  ELSE extension.queries

RECURSIVE inDiscoveryOrder(_, _, _)
\* What the extensions hold for a key of one add-function, first extension first
inDiscoveryOrder(exts, fn, key) ==
  IF exts = <<>> THEN <<>>
  ELSE valuesFor(entriesOf(Head(exts), fn), key) \o inDiscoveryOrder(Tail(exts), fn, key)

\* Built-in before plugins, plugins in discovery order
expectedAt(fn, key) ==
  (IF fn = "addFragment" THEN valuesFor(globalFragments, key) ELSE <<>>)
  \o inDiscoveryOrder(extensions, fn, key)

\* The number of entries of the extensions before extension number n
entriesBefore(n) ==
  LET f[i \in 0..(n - 1)] ==
        IF i = 0 THEN 0
        ELSE f[i - 1] + Len(extensions[i].fragments) + Len(extensions[i].mutations)
             + Len(extensions[i].queries)
  IN f[n - 1]

\* The position in init()'s pass of entry i of category fn of extension n
positionOf(n, fn, i) ==
  Len(globalFragments) + entriesBefore(n)
  + (IF fn = "addFragment" THEN 0
     ELSE IF fn = "addMutationOptions" THEN Len(extensions[n].fragments)
     ELSE Len(extensions[n].fragments) + Len(extensions[n].mutations))
  + i

\* C13: with no public add-call made, what init() has stored so far is, in
\* this order: the built-in fragments, then the extensions in discovery order,
\* of each its fragments, then its mutations, then its queries; and once
\* init() has returned, every list of the store holds the built-in
\* contribution first and then the plugins' contributions in discovery order.
C13_InitializationOrder ==
  nAdds = 0 =>
    /\ \A i \in 1..Len(globalFragments) :
         i <= Len(log) =>
           /\ log[i].fn = "addFragment"
           /\ log[i].key = globalFragments[i][1]
           /\ log[i].val = globalFragments[i][2]
    /\ \A n \in 1..Len(extensions), fn \in AddFunctions :
         \A i \in 1..Len(entriesOf(extensions[n], fn)) :
           positionOf(n, fn, i) <= Len(log) =>
             /\ log[positionOf(n, fn, i)].fn = fn
             /\ log[positionOf(n, fn, i)].key = entriesOf(extensions[n], fn)[i][1]
             /\ log[positionOf(n, fn, i)].val = entriesOf(extensions[n], fn)[i][2]
    /\ initPc = "done" =>
         \A fn \in AddFunctions, key \in AllKeys : stored(fn, key) = expectedAt(fn, key)

\* init() has returned in the installation with two extensions: under K the
\* built-in F1 stands before the plugin's F2, and under M the query config of
\* the first extension before that of the second.
C13_Witness ==
  /\ initPc = "done"
  /\ nAdds = 0
  /\ Len(extensions) = 2
  /\ fragments[K].names = <<N("F1"), N("F2")>>
  /\ stored("addQueryOptions", M) = <<"c2", "c4">>
  /\ stored("addMutationOptions", K) = <<"c3">>

-----------------------------------------------------------------------------
(* C14 *)

isPrefix(a, b) == Len(a) <= Len(b) /\ SubSeq(b, 1, Len(a)) = a

C14_GroupWellFormed ==
  \A k \in DOMAIN fragments :
    /\ Len(fragments[k].names) >= 1
    /\ Len(fragments[k].names) = Len(fragments[k].documents)
    /\ \A i \in 1..Len(fragments[k].documents) :
         fragments[k].names[i] = getDefinitionName(fragments[k].documents[i])

C14_GroupOnlyGrows ==
  \A k \in DOMAIN fragments :
    /\ k \in DOMAIN fragments'
    /\ isPrefix(fragments[k].names, fragments'[k].names)
    /\ isPrefix(fragments[k].documents, fragments'[k].documents)

\* C14: in every reachable state and under every key of the fragment mapping,
\* names and documents are non-empty and of equal length and names[i] is the
\* definition name of documents[i]; no step removes a key, and every step
\* leaves the names and documents that a group held in place, in front of
\* whatever it appends.
C14_FragmentGroupInvariant ==
  /\ []C14_GroupWellFormed
  /\ [][C14_GroupOnlyGrows]_vars

\* The group of K holds three documents: built-in, plugin, and one appended
\* by a public addFragment after init() had returned.
C14_Witness ==
  /\ initPc = "done"
  /\ last.op = "addFragment"
  /\ last.ok
  /\ K \in DOMAIN fragments
  /\ Len(fragments[K].documents) = 3
  /\ fragments[K].names = <<N("F1"), N("F2"), N("X1")>>

-----------------------------------------------------------------------------
(* C15 *)

\* C15: getFragmentDocument(key) answers after init() has run once.  For a key
\* of the store, also one that matches the slot pattern and has slot
\* contributions, it returns the registry assembly (fragment key on the stored
\* type, spreading the stored names, with the stored documents' definitions
\* and nothing from the slot) without calling getSlotFragments; for any other
\* key it returns what the slot strategy gives, which calls getSlotFragments
\* at most once.
C15_StrategyPrecedence ==
  (initPc = "done" /\ last.op = "getFragmentDocument") =>
    /\ gateRuns = 1
    /\ last.arg.key \in DOMAIN fragments =>
         LET g == fragments[last.arg.key]
         IN /\ last.ok
            /\ last.slotCalls = 0
            /\ last.val.definitions[1]
                 = FragmentDefinition(last.arg.key, g.type, g.names)
            /\ definitionsOf(last.val)
                 \subseteq {last.val.definitions[1]}
                           \cup {g.documents[i].definitions[1] : i \in 1..Len(g.documents)}
    /\ last.arg.key \notin DOMAIN fragments =>
         LET r == getSlotFragmentDocument(slotFragments, last.arg.key)
         IN /\ last.ok = r.ok
            /\ last.ok => last.val = r.val
            /\ last.slotCalls <= 1

\* TalkSlot_Foo_Bar is a key of the store and slot foo has fragments for Bar:
\* the registry assembly on User with F4 is returned, getSlotFragments is not
\* called.
C15_Witness ==
  /\ initPc = "done"
  /\ last.op = "getFragmentDocument"
  /\ last.arg.key = SlotFooBar
  /\ SlotFooBar \in DOMAIN fragments
  /\ Len(slotContributions(SlotFooBar)) = 2
  /\ last.ok
  /\ last.slotCalls = 0
  /\ last.val.definitions[1].typeCondition = "User"
  /\ hasDefinition(last.val, "FragmentDefinition", N("F4"))
  /\ ~hasDefinition(last.val, "FragmentDefinition", N("P1"))

-----------------------------------------------------------------------------
(* C16 *)

\* How often the parser sees a spread of the name in a text
spreadCount(text, name) ==
  LET toks == Flatten(text.lines)
  IN Cardinality({j \in 1..Len(toks) : toks[j].t = "spread" /\ toks[j].name = name})

\* getFragmentDocument(key) on the present store returns nothing
unresolvable(key) ==
  LET r == getFragmentDocument(fragments, slotFragments, key)
  IN IF r.ok THEN r.val = Nothing ELSE FALSE

\* C16: for a document with source text and every spread name of it that does
\* not begin with TalkSlot_ and for which getFragmentDocument returns nothing,
\* resolveFragments does not throw, the returned document's text has every
\* occurrence of that spread, and the fragment of every other spread of the
\* document that getFragmentDocument resolves is merged.
C16_UnresolvablePassedThrough ==
  resolved =>
    \A n \in textSpreads(last.arg) :
      (~startsWithTalkSlot(n) /\ unresolvable(n))
        => /\ last.ok
           /\ spreadCount(last.val.source, n) >= spreadCount(last.arg.source, n)
           /\ \A m \in textSpreads(last.arg) :
                resolvable(m) => assembled(m) \subseteq definitionsOf(last.val)

\* `query Q { ...Missing ...K }` on one line, K a key of the store: the
\* spread of Missing stays, the fragment of K is not merged.
C16_Witness ==
  /\ resolved
  /\ last.arg.source = oneLine(<<Spread(Missing), Spread(K)>>)
  /\ unresolvable(Missing)
  /\ resolvable(K)
  /\ last.ok
  /\ spreadCount(last.val.source, Missing) = 1
  /\ ~hasDefinition(last.val, "FragmentDefinition", K)

-----------------------------------------------------------------------------
(* C17 *)

\* The documents that a key's fragment is assembled from
contributionsOf(key) ==
  IF key \in DOMAIN fragments THEN fragments[key].documents ELSE slotContributions(key)

\* C17: when getFragmentDocument(key) assembles a fragment, the returned
\* document has the synthesized fragment named key, which does not spread
\* key, and besides it, as definitions of their own, the definition of every
\* document contributed under the key, also of one whose definition is named
\* key.
C17_NoContributionLost ==
  (initPc = "done" /\ last.op = "getFragmentDocument" /\ resolvable(last.arg.key)) =>
    LET key == last.arg.key
        given == {contributionsOf(key)[i].definitions[1] :
                    i \in 1..Len(contributionsOf(key))}
    IN /\ last.ok
       /\ last.val.definitions[1].kind = "FragmentDefinition"
       /\ last.val.definitions[1].name = key
       /\ key \notin Range(last.val.definitions[1].spreads)
       /\ given \subseteq {last.val.definitions[i] : i \in 2..Len(last.val.definitions)}
       /\ Len(last.val.definitions) = 1 + Cardinality(given)

\* A fragment named K is registered under the key K: the synthesized fragment
\* K spreads ...K, and the contributed definition K is not in the document.
C17_Witness ==
  /\ initPc = "done"
  /\ last.op = "getFragmentDocument"
  /\ last.arg.key = K
  /\ K \in DOMAIN fragments
  /\ fragments[K].names[1] = K
  /\ last.ok
  /\ K \in Range(last.val.definitions[1].spreads)
  /\ fragments[K].documents[1].definitions[1] \notin definitionsOf(last.val)

-----------------------------------------------------------------------------
(* C18: an aborted init() is never retried *)

\* Does the contribution make addFragment throw, whatever the store holds?
failsAlone(it) == it.fn = "addFragment" /\ getTypeNameThrows(it.val)

\* The position in init()'s contributions of the first one that throws
firstFailure ==
  LET failing == {j \in 1..Len(gateItems) : failsAlone(gateItems[j])}
  IN IF failing = {} THEN Len(gateItems) + 1
     ELSE CHOOSE j \in failing : \A i \in failing : j <= i

\* The contributions of init() in front of the first one that throws
appliedBeforeFailure == SubSeq(gateItems, 1, firstFailure - 1)

\* Is the value under key one that init() contributes through fn?
fromGate(fn, key, v) ==
  \E j \in 1..Len(gateItems) :
    gateItems[j].fn = fn /\ gateItems[j].key = key /\ gateItems[j].val = v

\* What the store holds under key of the contributions of init()
gateStored(fn, key) == SelectSeq(stored(fn, key), LAMBDA v : fromGate(fn, key, v))

\* Once init() has aborted, the flag is set, init() has been entered once,
\* and of init()'s contributions the store holds those in front of the
\* failing one, in order, and none of the others.
C18_PartialStoreKept ==
  initPc = "failed" =>
    /\ initialized
    /\ gateRuns = 1
    /\ firstFailure <= Len(gateItems)
    /\ discoveryCalls = (IF firstFailure > Len(globalFragments) THEN 1 ELSE 0)
    /\ \A fn \in AddFunctions, key \in AllKeys :
         gateStored(fn, key) = logged(appliedBeforeFailure, fn, key)

\* After the abort no step enters init() again or applies a contribution of
\* init(), and a read accessor computes its result on the store as it is.
C18_NoRetry ==
  initPc = "failed" =>
    /\ initPc' = "failed"
    /\ initialized'
    /\ gateRuns' = gateRuns
    /\ discoveryCalls' = discoveryCalls
    /\ (returns(last, last') /\ last'.op \in ReadOps) =>
         /\ last' = readResult(callOf(last'), fragments, mutationOptions,
                               queryOptions, slotFragments)
         /\ UNCHANGED <<fragments, mutationOptions, queryOptions, log>>

\* C18: initialization is never retried.  If the first pass aborts because a
\* contribution makes addFragment throw, the flag stays set, the contributions
\* applied before the failure stay in the store, the remaining ones are never
\* applied, and every later read accessor call returns its result from that
\* partial store without running init() again.
C18_InitNeverRetried ==
  /\ []C18_PartialStoreKept
  /\ [][C18_NoRetry]_vars

\* init() aborted on the second fragment of a plugin: K holds the built-in
\* and the plugin's first fragment, the plugin's mutation config for M never
\* arrived, and a later getMutationOptions(M) returned the empty list.
C18_Witness ==
  /\ initPc = "failed"
  /\ initialized
  /\ gateRuns = 1
  /\ discoveryCalls = 1
  /\ K \in DOMAIN fragments
  /\ Len(fragments[K].documents) = 2
  /\ J \notin DOMAIN fragments
  /\ last.op = "getMutationOptions"
  /\ last.arg.key = M
  /\ last.ok
  /\ last.val = Configs(<<>>)

-----------------------------------------------------------------------------
(* C19: contributions made before the first read survive init() *)

\* The calls recorded in lg in front of the first contribution of init()
preInit(lg) ==
  LET gate == {i \in 1..Len(lg) : fromGate(lg[i].fn, lg[i].key, lg[i].val)}
  IN IF gate = {} THEN lg
     ELSE SubSeq(lg, 1, (CHOOSE i \in gate : \A j \in gate : i <= j) - 1)

\* C19: once init() has returned, every list of the store begins with what
\* the public add-functions put under its key before init() ran, followed by
\* the built-in and plugin contributions; names follow documents; and the
\* type of a key that a public addFragment created before init() is the type
\* of that first document, whatever the types of the built-in fragments.
C19_EarlyContributionsSurvive ==
  initPc = "done" =>
    /\ \A fn \in AddFunctions, key \in AllKeys :
         isPrefix(logged(preInit(log), fn, key) \o expectedAt(fn, key), stored(fn, key))
    /\ \A key \in DOMAIN fragments :
         LET early == logged(preInit(log), "addFragment", key)
         IN /\ isPrefix(namesOf(early \o expectedAt("addFragment", key)),
                        fragments[key].names)
            /\ early # <<>> => fragments[key].type = getTypeName(early[1])

\* addFragment(K, X1 on Asset) was called before the first read; after
\* init() the group of K has the type Asset and holds X1 in front of the
\* built-in fragment, which is on User.
C19_Witness ==
  /\ initPc = "done"
  /\ log # <<>>
  /\ log[1].fn = "addFragment"
  /\ log[1].key = K
  /\ getDefinitionName(log[1].val) = N("X1")
  /\ fragments[K].type = "Asset"
  /\ Len(fragments[K].documents) >= 2
  /\ fragments[K].names[1] = N("X1")
  /\ getTypeName(fragments[K].documents[2]) = "User"

\* addMutationOptions(M, p1) was called before the first read; after init()
\* the configs of M are p1 and then the plugins' configs.
C19_OptionsWitness ==
  /\ initPc = "done"
  /\ M \in DOMAIN mutationOptions
  /\ mutationOptions[M] = <<"p1", "c1", "c1">>

====
